---- MODULE Spec2Model ----
(***************************************************************************)
(* PostgreSQLSession (src/src/06_sessions.py): a per-conversation ordered  *)
(* log of turn payloads kept in the table conversation_turns, reached      *)
(* through a lazily created asyncpg pool.                                  *)
(*                                                                         *)
(* The store is PostgreSQL at its default isolation level READ COMMITTED:  *)
(* a statement sees the rows committed when it starts, a row inserted by a *)
(* transaction is seen by others once that transaction commits, and a      *)
(* DELETE that meets a row another transaction deleted after the           *)
(* statement's snapshot was taken skips that row.  The host is asyncio:    *)
(* the code between two awaits of a coroutine is one step, and coroutines  *)
(* of different tasks interleave at their awaits.                          *)
(***************************************************************************)
EXTENDS Integers, Sequences, FiniteSets

\* ------------------------------------------------------------------ bounds
\* Tasks of the host.
NTasks == 3
\* Rows the SERIAL column numbers over a run.
MaxIdx == 3
\* Items of one add_items batch.
MaxBatch == 2
\* Largest limit passed to get_items.
MaxLimit == 2

\* --------------------------------------------------------------- universe
Tasks == 1..NTasks

\* The PostgreSQLSession objects of the process, named by their session_id.
Instances == {"A", "B"}

\* __init__: self.session_id = session_id
session_id(i) == i

\* Python's None, for Optional values: None is <<>>, a value v is <<v>>.
None == <<>>

\* The turn documents callers store ({role, content}-shaped dicts).
Payloads ==
    { [role |-> "user", content |-> "Q"],
      [role |-> "assistant", content |-> "A"] }

RECURSIVE SeqsUpTo(_, _)
SeqsUpTo(S, n) ==
    IF n = 0 THEN {<<>>}
    ELSE LET shorter == SeqsUpTo(S, n - 1)
         IN  shorter \cup {Append(s, x) : s \in {q \in shorter : Len(q) = n - 1}, x \in S}

\* The item lists passed to add_items.
Batches == SeqsUpTo(Payloads, MaxBatch)

\* A conversation of n turns: user and assistant alternate.
Turns(n) ==
    [k \in 1..n |-> IF k % 2 = 1 THEN [role |-> "user", content |-> "Q"]
                                 ELSE [role |-> "assistant", content |-> "A"]]

\* The item lists concurrent callers pass: the first turns of a conversation.
TurnBatches == {Turns(n) : n \in 0..MaxBatch}

\* The limit arguments passed to get_items: None, or an int (0 and a
\* negative one included).
Limits == {None} \cup {<<k>> : k \in -1..MaxLimit}

\* What the DDL creates: the table and its index on session_id.
Relations == {"conversation_turns", "idx_session"}

\* ------------------------------------------------------------------ state
VARIABLES
    table,      \* conversation_turns: the committed rows
    idx_seq,    \* the sequence behind idx SERIAL: the last value handed out
    pools,      \* per instance, the pools create_pool returned: their states
    _pool,      \* self._pool per instance: 0 (None) or an index into pools
    closed,     \* per instance: close() has returned
    pc,         \* per task: the await its coroutine is suspended at
    op,         \* per task: the method it runs
    inst,       \* per task: self
    limit,      \* per task: get_items' limit
    items,      \* per task: add_items' items
    pool,       \* per task: the local variable pool
    pending,    \* per task: rows executemany inserted, not yet committed
    row,        \* per task: pop_item's target row, then the row it deleted
    result,     \* per task: what the call returned or raised
    schema,     \* the relations of the DDL that exist in the database
    conn,       \* per task: _ensure_schema's local variable conn
    main        \* the line main() has reached, "none" when it is not run

vars == <<table, idx_seq, pools, _pool, closed, pc, op, inst, limit, items,
          pool, pending, row, result, schema, conn, main>>

store == <<table, idx_seq, schema>>

\* ------------------------------------------------------- json conversions
\* json.dumps(item): the document as JSON text, here its token sequence.
json_dumps(d) == <<"{", "role", d.role, "content", d.content, "}">>

\* json.loads(text): the document a JSON text denotes.
json_loads(s) == [role |-> s[3], content |-> s[5]]

\* --------------------------------------------------------------- results
NoResult == [status |-> "none", value |-> None]
Returned(v) == [status |-> "returned", value |-> v]
Raised == [status |-> "raised", value |-> None]

\* ------------------------------------------------------- SQL statements
\* A faulty variant of RowsOf: the WHERE clause is missing.
RowsOfAnySession(t, sid) == t

\* WHERE session_id = $1: the rows of one session.
RowsOf(t, sid) == {r \in t : r.session_id = sid}

\* ORDER BY idx ASC or DESC: the rows as a sequence.
RECURSIVE OrderByIdx(_, _)
OrderByIdx(rows, asc) ==
    IF rows = {} THEN <<>>
    ELSE LET first == CHOOSE r \in rows :
                        \A q \in rows : IF asc THEN r.idx <= q.idx ELSE r.idx >= q.idx
         IN  <<first>> \o OrderByIdx(rows \ {first}, asc)

\* A faulty variant of Take: the last n elements, the most recent turns.
TakeLast(s, n) == SubSeq(s, IF n < Len(s) THEN Len(s) - n + 1 ELSE 1, Len(s))

\* LIMIT n: the first n rows of the ordered result, all of them if fewer.
Take(s, n) == SubSeq(s, 1, IF n < Len(s) THEN n ELSE Len(s))

\* get_items' statement text: the LIMIT $2 clause is there when limit is truthy.
HasLimitClause(lim) == lim # None /\ lim[1] # 0

\* get_items' args: [session_id] when limit is None, else [session_id, limit].
NArgs(lim) == IF lim = None THEN 1 ELSE 2

NPlaceholders(lim) == IF HasLimitClause(lim) THEN 2 ELSE 1

\* SELECT payload FROM conversation_turns WHERE session_id = $1
\* ORDER BY idx ASC [LIMIT $2]; the decoded payloads, or Raised when the
\* driver or the store rejects the statement.
SelectPayloads(t, sid, lim) ==
    LET ordered == OrderByIdx(RowsOf(t, sid), TRUE)
        decoded == [k \in 1..Len(ordered) |-> json_loads(ordered[k].payload)]
    IN  IF NArgs(lim) # NPlaceholders(lim) THEN Raised
        ELSE IF HasLimitClause(lim) /\ lim[1] < 0 THEN Raised
        ELSE IF HasLimitClause(lim) THEN Returned(Take(decoded, lim[1]))
        ELSE Returned(decoded)

\* A faulty variant of SelectLast: ORDER BY idx ASC.
SelectFirst(t, sid) ==
    LET ordered == OrderByIdx(RowsOf(t, sid), TRUE)
    IN  IF ordered = <<>> THEN None ELSE <<ordered[1]>>

\* SELECT ctid FROM conversation_turns WHERE session_id = $1
\* ORDER BY idx DESC LIMIT 1
SelectLast(t, sid) ==
    LET ordered == OrderByIdx(RowsOf(t, sid), FALSE)
    IN  IF ordered = <<>> THEN None ELSE <<ordered[1]>>

\* What get_items(None) returns on store t: every payload of the session.
AllItems(t, sid) == SelectPayloads(t, sid, None).value

\* A faulty variant of DeleteSession: the session's newest row survives.
DeleteSessionButNewest(t, sid) ==
    t \ {r \in RowsOf(t, sid) : \E q \in RowsOf(t, sid) : q.idx > r.idx}

\* DELETE FROM conversation_turns WHERE session_id = $1
DeleteSession(t, sid) == t \ RowsOf(t, sid)

\* ------------------------------------------------------------------ init
Init ==
    /\ table = {}
    /\ idx_seq = 0
    /\ pools = [i \in Instances |-> <<>>]
    /\ _pool = [i \in Instances |-> 0]
    /\ closed = [i \in Instances |-> FALSE]
    /\ pc = [t \in Tasks |-> "idle"]
    /\ op = [t \in Tasks |-> "none"]
    /\ inst = [t \in Tasks |-> "A"]
    /\ limit = [t \in Tasks |-> None]
    /\ items = [t \in Tasks |-> <<>>]
    /\ pool = [t \in Tasks |-> 0]
    /\ pending = [t \in Tasks |-> <<>>]
    /\ row = [t \in Tasks |-> None]
    /\ result = [t \in Tasks |-> NoResult]
    /\ schema = Relations
    /\ conn = [t \in Tasks |-> "none"]
    /\ main = "none"

\* ------------------------------------------------------- task bookkeeping
\* The host starts method o of instance i as task t.
Begin(t, i, o, lim, its) ==
    /\ pc[t] = "idle"
    /\ op' = [op EXCEPT ![t] = o]
    /\ inst' = [inst EXCEPT ![t] = i]
    /\ limit' = [limit EXCEPT ![t] = lim]
    /\ items' = [items EXCEPT ![t] = its]

\* The call of task t ends with result r.
Finish(t, r) ==
    /\ pc' = [pc EXCEPT ![t] = "done"]
    /\ result' = [result EXCEPT ![t] = r]

\* The await at which each method's statement is in flight.
StmtPc(o) ==
    CASE o = "get_items" -> "fetch"
      [] o = "add_items" -> "executemany"
      [] o = "pop_item" -> "fetchrow"
      [] o = "clear_session" -> "execute"

\* A task at one of these holds a connection of its pool.
HoldsConnection(t) == pc[t] \in {"fetch", "executemany", "fetchrow", "delete", "execute"}

\* ------------------------------------------------------------------ pool
\* pool.fetch / pool.executemany / pool.acquire / pool.execute on pool p of
\* instance i: asyncpg takes a connection of an open pool and raises
\* InterfaceError on a pool that is closing or closed.
UsePool(t, i, p, o) ==
    /\ pool' = [pool EXCEPT ![t] = p]
    /\ IF pools[i][p] = "open"
       THEN /\ pc' = [pc EXCEPT ![t] = StmtPc(o)]
            /\ result' = result
       ELSE Finish(t, Raised)

\* _pool_acquire as the first thing of a method: with self._pool set it
\* returns it without suspending and the method goes on to use it; with
\* self._pool None the task suspends in create_pool.
pool_acquire(t, i, o) ==
    /\ IF _pool[i] = 0
       THEN /\ pc' = [pc EXCEPT ![t] = "create_pool"]
            /\ UNCHANGED <<pool, result>>
       ELSE UsePool(t, i, _pool[i], o)
    /\ UNCHANGED <<pools, _pool>>

\* create_pool returns: self._pool = <the new pool>; return self._pool; and
\* the method goes on to use the pool it was handed.
PoolCreated(t) ==
    /\ pc[t] = "create_pool"
    /\ LET i == inst[t]
           p == Len(pools[i]) + 1
       IN  /\ pools' = [pools EXCEPT ![i] = Append(@, "open")]
           /\ _pool' = [_pool EXCEPT ![i] = p]
           /\ pool' = [pool EXCEPT ![t] = p]
           /\ pc' = [pc EXCEPT ![t] = StmtPc(op[t])]
    /\ UNCHANGED <<store, closed, op, inst, limit, items, pending, row, result, conn, main>>

\* -------------------------------------------------------------- get_items
GetItemsCall(t, i, lim) ==
    /\ Begin(t, i, "get_items", lim, <<>>)
    /\ pool_acquire(t, i, "get_items")
    /\ UNCHANGED <<store, closed, pending, row, conn, main>>

\* rows = await pool.fetch(sql, *args); return [json.loads(...) for r in rows]
GetItemsFetch(t) ==
    /\ pc[t] = "fetch"
    /\ Finish(t, SelectPayloads(table, session_id(inst[t]), limit[t]))
    /\ UNCHANGED <<store, pools, _pool, closed, op, inst, limit, items, pool, pending, row, conn, main>>

\* -------------------------------------------------------------- add_items
\* The model's budget of idx values: a batch is started only within it.
IdxReserved ==
    LET todo(u) == IF op[u] = "add_items" /\ pc[u] \in {"create_pool", "executemany"}
                   THEN Len(items[u]) - Len(pending[u]) ELSE 0
        RECURSIVE Sum(_)
        Sum(S) == IF S = {} THEN 0
                  ELSE LET u == CHOOSE u \in S : TRUE IN todo(u) + Sum(S \ {u})
    IN  idx_seq + Sum(Tasks)

\* A faulty variant of AddItemsCall: no fast path for an empty list.
AddItemsCallNoFastPath(t, i, its) ==
    /\ Begin(t, i, "add_items", <<>>, its)
    /\ IdxReserved + Len(its) <= MaxIdx
    /\ pool_acquire(t, i, "add_items")
    /\ UNCHANGED <<store, closed, pending, row, conn, main>>

\* if not items: return, before anything else; else the pool is acquired.
AddItemsCall(t, i, its) ==
    /\ Begin(t, i, "add_items", <<>>, its)
    /\ IF its = <<>>
       THEN /\ Finish(t, Returned(None))
            /\ UNCHANGED <<pools, _pool, pool>>
       ELSE /\ IdxReserved + Len(its) <= MaxIdx
            /\ pool_acquire(t, i, "add_items")
    /\ UNCHANGED <<store, closed, pending, row, conn, main>>

\* A faulty variant of NextItem: the list is sent last item first.
NextItemReversed(its, n) == its[Len(its) - n]

\* [(self.session_id, json.dumps(item)) for item in items]: the item
\* executemany sends after it has sent n of them.
NextItem(its, n) == its[n + 1]

\* A faulty variant of AddItemsInsert: idx is one more than the largest idx
\* the session has stored (MAX(idx) + 1), not the sequence's next value.
AddItemsInsertMaxPlusOne(t) ==
    /\ pc[t] = "executemany"
    /\ Len(pending[t]) < Len(items[t])
    /\ idx_seq' = idx_seq + 1
    /\ pending' = [pending EXCEPT ![t] = Append(@,
            [session_id |-> session_id(inst[t]),
             idx |-> 1 + Cardinality({k \in 1..idx_seq :
                        \E r \in RowsOf(table, session_id(inst[t])) : r.idx >= k}),
             payload |-> json_dumps(NextItem(items[t], Len(pending[t])))])]
    /\ UNCHANGED <<table, pools, _pool, closed, pc, op, inst, limit, items, pool, row, result, schema, conn, main>>

\* executemany sends the INSERT once per item, in the order of the list;
\* idx takes the sequence's next value; the row is not yet committed.
AddItemsInsert(t) ==
    /\ pc[t] = "executemany"
    /\ Len(pending[t]) < Len(items[t])
    /\ idx_seq' = idx_seq + 1
    /\ pending' = [pending EXCEPT ![t] = Append(@,
            [session_id |-> session_id(inst[t]),
             idx |-> idx_seq + 1,
             payload |-> json_dumps(NextItem(items[t], Len(pending[t])))])]
    /\ UNCHANGED <<table, pools, _pool, closed, pc, op, inst, limit, items, pool, row, result, schema, conn, main>>

\* A faulty variant of AddItemsCommit: each INSERT is a transaction of its
\* own and only the last one is committed.
AddItemsCommitLast(t) ==
    /\ pc[t] = "executemany"
    /\ Len(pending[t]) = Len(items[t])
    /\ table' = table \cup {pending[t][Len(pending[t])]}
    /\ pending' = [pending EXCEPT ![t] = <<>>]
    /\ Finish(t, Returned(None))
    /\ UNCHANGED <<idx_seq, pools, _pool, closed, op, inst, limit, items, pool, row, schema, conn, main>>

\* executemany ends: its implicit transaction commits the whole batch.
AddItemsCommit(t) ==
    /\ pc[t] = "executemany"
    /\ Len(pending[t]) = Len(items[t])
    /\ table' = table \cup {pending[t][k] : k \in 1..Len(pending[t])}
    /\ pending' = [pending EXCEPT ![t] = <<>>]
    /\ Finish(t, Returned(None))
    /\ UNCHANGED <<idx_seq, pools, _pool, closed, op, inst, limit, items, pool, row, schema, conn, main>>

\* --------------------------------------------------------------- pop_item
PopItemCall(t, i) ==
    /\ Begin(t, i, "pop_item", <<>>, <<>>)
    /\ pool_acquire(t, i, "pop_item")
    /\ UNCHANGED <<store, closed, pending, row, conn, main>>

\* The DELETE's subquery, evaluated on the statement's snapshot.
PopItemSelect(t) ==
    /\ pc[t] = "fetchrow"
    /\ row' = [row EXCEPT ![t] = SelectLast(table, session_id(inst[t]))]
    /\ pc' = [pc EXCEPT ![t] = "delete"]
    /\ UNCHANGED <<store, pools, _pool, closed, op, inst, limit, items, pool, pending, result, conn, main>>

\* A faulty variant of DeleteReturning: the row the subquery read is returned
\* whether or not it is still there (read the newest, then delete by key).
DeleteReturningUnchecked(t, target) == target

\* DELETE ... WHERE ctid = <the subquery's row> RETURNING payload: the row is
\* deleted and returned if it is still there, and skipped if a transaction
\* that committed since the snapshot deleted it.
DeleteReturning(t, target) ==
    IF target # None /\ target[1] \in t THEN target ELSE None

\* row = await conn.fetchrow(...); return json.loads(row["payload"]) if row
\* else None; the transaction commits on leaving the async with.
PopItemDelete(t) ==
    /\ pc[t] = "delete"
    /\ LET deleted == DeleteReturning(table, row[t])
       IN  /\ table' = table \ {deleted[k] : k \in 1..Len(deleted)}
           /\ row' = [row EXCEPT ![t] = deleted]
           /\ Finish(t, Returned(IF deleted # None
                                 THEN <<json_loads(deleted[1].payload)>>
                                 ELSE None))
    /\ UNCHANGED <<idx_seq, pools, _pool, closed, op, inst, limit, items, pool, pending, schema, conn, main>>

\* ---------------------------------------------------------- clear_session
ClearSessionCall(t, i) ==
    /\ Begin(t, i, "clear_session", <<>>, <<>>)
    /\ pool_acquire(t, i, "clear_session")
    /\ UNCHANGED <<store, closed, pending, row, conn, main>>

ClearSessionExecute(t) ==
    /\ pc[t] = "execute"
    /\ table' = DeleteSession(table, session_id(inst[t]))
    /\ Finish(t, Returned(None))
    /\ UNCHANGED <<idx_seq, pools, _pool, closed, op, inst, limit, items, pool, pending, row, schema, conn, main>>

\* ------------------------------------------------------------------ close
\* A faulty variant of CloseCall: closing a pool that is already closed
\* raises.
CloseCallOnce(t, i) ==
    /\ Begin(t, i, "close", <<>>, <<>>)
    /\ IF _pool[i] = 0
       THEN /\ Finish(t, Returned(None))
            /\ closed' = [closed EXCEPT ![i] = TRUE]
            /\ UNCHANGED <<pools, pool>>
       ELSE IF pools[i][_pool[i]] = "closed"
       THEN /\ Finish(t, Raised)
            /\ UNCHANGED <<closed, pools, pool>>
       ELSE /\ pools' = [pools EXCEPT ![i][_pool[i]] = "closing"]
            /\ pool' = [pool EXCEPT ![t] = _pool[i]]
            /\ pc' = [pc EXCEPT ![t] = "pool_close"]
            /\ UNCHANGED <<closed, result>>
    /\ UNCHANGED <<store, _pool, pending, row, conn, main>>

\* if self._pool: await self._pool.close().  Pool.close() returns at once on
\* a closed pool; otherwise it marks the pool closing and waits for the
\* connections in use to be released.
CloseCall(t, i) ==
    /\ Begin(t, i, "close", <<>>, <<>>)
    /\ IF _pool[i] = 0 \/ pools[i][_pool[i]] = "closed"
       THEN /\ Finish(t, Returned(None))
            /\ closed' = [closed EXCEPT ![i] = TRUE]
            /\ UNCHANGED <<pools, pool>>
       ELSE /\ pools' = [pools EXCEPT ![i][_pool[i]] = "closing"]
            /\ pool' = [pool EXCEPT ![t] = _pool[i]]
            /\ pc' = [pc EXCEPT ![t] = "pool_close"]
            /\ UNCHANGED <<closed, result>>
    /\ UNCHANGED <<store, _pool, pending, row, conn, main>>

ClosePoolClosed(t) ==
    /\ pc[t] = "pool_close"
    /\ \A u \in Tasks : HoldsConnection(u) => ~(inst[u] = inst[t] /\ pool[u] = pool[t])
    /\ pools' = [pools EXCEPT ![inst[t]][pool[t]] = "closed"]
    /\ closed' = [closed EXCEPT ![inst[t]] = TRUE]
    /\ Finish(t, Returned(None))
    /\ UNCHANGED <<store, _pool, op, inst, limit, items, pool, pending, row, conn, main>>

\* --------------------------------------------------------- _ensure_schema
\* _ensure_schema(dsn) is called: conn = await asyncpg.connect(dsn).
EnsureSchemaCall(t) ==
    /\ Begin(t, "A", "_ensure_schema", <<>>, <<>>)
    /\ pc' = [pc EXCEPT ![t] = "connect"]
    /\ UNCHANGED <<store, pools, _pool, closed, pool, pending, row, result, conn, main>>

\* asyncpg.connect returns the connection.
Connected(t) ==
    /\ pc[t] = "connect"
    /\ conn' = [conn EXCEPT ![t] = "open"]
    /\ pc' = [pc EXCEPT ![t] = "ddl"]
    /\ UNCHANGED <<store, pools, _pool, closed, op, inst, limit, items, pool, pending, row, result, main>>

\* A faulty variant of ExecuteDDL: CREATE TABLE and CREATE INDEX without
\* IF NOT EXISTS raise when the relation exists.
ExecuteDDLStrict(t) ==
    /\ pc[t] = "ddl"
    /\ IF schema \cap Relations = {}
       THEN /\ schema' = schema \cup Relations
            /\ pc' = [pc EXCEPT ![t] = "conn_close"]
       ELSE /\ schema' = schema
            /\ pc' = [pc EXCEPT ![t] = "raising"]
    /\ UNCHANGED <<table, idx_seq, pools, _pool, closed, op, inst, limit, items, pool, pending, row,
                   result, conn, main>>

\* await conn.execute(DDL): CREATE TABLE IF NOT EXISTS and CREATE INDEX IF
\* NOT EXISTS, sent as one query, create what is missing and skip what
\* exists; no row is touched.
ExecuteDDL(t) ==
    /\ pc[t] = "ddl"
    /\ schema' = schema \cup Relations
    /\ pc' = [pc EXCEPT ![t] = "conn_close"]
    /\ UNCHANGED <<table, idx_seq, pools, _pool, closed, op, inst, limit, items, pool, pending, row,
                   result, conn, main>>

\* await conn.close(), and _ensure_schema returns None.
ConnClosed(t) ==
    /\ pc[t] = "conn_close"
    /\ conn' = [conn EXCEPT ![t] = "closed"]
    /\ Finish(t, Returned(None))
    /\ UNCHANGED <<store, pools, _pool, closed, op, inst, limit, items, pool, pending, row, main>>

\* asyncpg.connect raises: no connection was opened.
ConnectFails(t) ==
    /\ pc[t] = "connect"
    /\ pc' = [pc EXCEPT ![t] = "raising"]
    /\ UNCHANGED <<store, pools, _pool, closed, op, inst, limit, items, pool, pending, row, result,
                   conn, main>>

\* conn.execute(DDL) raises: the query's implicit transaction creates
\* nothing, and the exception leaves _ensure_schema from this line, which
\* is in no try block: conn.close() is not reached.
DDLFails(t) ==
    /\ pc[t] = "ddl"
    /\ pc' = [pc EXCEPT ![t] = "raising"]
    /\ UNCHANGED <<store, pools, _pool, closed, op, inst, limit, items, pool, pending, row, result,
                   conn, main>>

\* --------------------------------------------------------- store failures
\* asyncpg.create_pool raises (the server cannot be reached): the assignment
\* to self._pool does not happen and the exception leaves _pool_acquire.
CreatePoolFails(t) ==
    /\ pc[t] = "create_pool"
    /\ pc' = [pc EXCEPT ![t] = "raising"]
    /\ UNCHANGED <<store, pools, _pool, closed, op, inst, limit, items, pool, pending, row, result, conn, main>>

\* The statement in flight raises (connection lost, statement rejected): it
\* has no effect, executemany's transaction and pop_item's conn.transaction()
\* roll back what they did (values taken from the idx sequence are not given
\* back), and the exception leaves the await.
StatementFails(t) ==
    /\ HoldsConnection(t)
    /\ pc' = [pc EXCEPT ![t] = "raising"]
    /\ pending' = [pending EXCEPT ![t] = <<>>]
    /\ UNCHANGED <<store, pools, _pool, closed, op, inst, limit, items, pool, row, result, conn, main>>

\* A faulty variant of Unwind: the method catches the exception and returns
\* None (try: ... except Exception: return None).
UnwindSwallowed(t) ==
    /\ pc[t] = "raising"
    /\ Finish(t, Returned(None))
    /\ UNCHANGED <<store, pools, _pool, closed, op, inst, limit, items, pool, pending, row, conn, main>>

\* No method has a try/except and the async with blocks re-raise: the
\* exception reaches the caller.
Unwind(t) ==
    /\ pc[t] = "raising"
    /\ Finish(t, Raised)
    /\ UNCHANGED <<store, pools, _pool, closed, op, inst, limit, items, pool, pending, row, conn, main>>

\* ----------------------------------------------------------------- return
\* The caller takes the result; the task's frame is gone.
Return(t) ==
    /\ pc[t] = "done"
    /\ pc' = [pc EXCEPT ![t] = "idle"]
    /\ op' = [op EXCEPT ![t] = "none"]
    /\ inst' = [inst EXCEPT ![t] = "A"]
    /\ limit' = [limit EXCEPT ![t] = None]
    /\ items' = [items EXCEPT ![t] = <<>>]
    /\ pool' = [pool EXCEPT ![t] = 0]
    /\ pending' = [pending EXCEPT ![t] = <<>>]
    /\ row' = [row EXCEPT ![t] = None]
    /\ conn' = [conn EXCEPT ![t] = "none"]
    /\ result' = [result EXCEPT ![t] = NoResult]
    /\ UNCHANGED <<store, pools, _pool, closed, main>>

\* ------------------------------------------------------------------ specs
\* What a task inside a call does next.
Proceed(t) ==
    \/ PoolCreated(t)
    \/ GetItemsFetch(t)
    \/ AddItemsInsert(t)
    \/ AddItemsCommit(t)
    \/ PopItemSelect(t)
    \/ PopItemDelete(t)
    \/ ClearSessionExecute(t)
    \/ ClosePoolClosed(t)
    \/ Return(t)

\* ------------------------------------------------------------------- main
\* asyncio.run(main()) in a database in which nothing exists yet.
InitMain ==
    /\ table = {}
    /\ idx_seq = 0
    /\ pools = [i \in Instances |-> <<>>]
    /\ _pool = [i \in Instances |-> 0]
    /\ closed = [i \in Instances |-> FALSE]
    /\ pc = [t \in Tasks |-> "idle"]
    /\ op = [t \in Tasks |-> "none"]
    /\ inst = [t \in Tasks |-> "A"]
    /\ limit = [t \in Tasks |-> None]
    /\ items = [t \in Tasks |-> <<>>]
    /\ pool = [t \in Tasks |-> 0]
    /\ pending = [t \in Tasks |-> <<>>]
    /\ row = [t \in Tasks |-> None]
    /\ result = [t \in Tasks |-> NoResult]
    /\ schema = {}
    /\ conn = [t \in Tasks |-> "none"]
    /\ main = "_ensure_schema"

\* await _ensure_schema(PG_DSN), the first thing main does.
MainEnsureSchema(t) ==
    /\ main = "_ensure_schema"
    /\ EnsureSchemaCall(t)

\* session = PostgreSQLSession(...); await session.clear_session().
MainClearSession(t) ==
    /\ main = "clear_session"
    /\ ClearSessionCall(t, "A")

\* Runner.run(assistant, turn, session=session, ...) reads the history and
\* appends the turn's items; main prints session.get_items() at the end.
MainRun(t) ==
    /\ main = "run"
    /\ \/ GetItemsCall(t, "A", None)
       \/ \E its \in TurnBatches : AddItemsCall(t, "A", its)

\* await session.close(), the last thing main does.
MainClose(t) ==
    /\ main = "run"
    /\ CloseCall(t, "A")

\* The awaited call ends and main goes on to its next line; an exception
\* ends main, as does the return of session.close().
MainReturn(t) ==
    /\ pc[t] = "done"
    /\ main' = IF result[t] = Raised THEN "exited"
               ELSE CASE op[t] = "_ensure_schema" -> "clear_session"
                      [] op[t] = "clear_session" -> "run"
                      [] op[t] = "close" -> "exited"
                      [] OTHER -> main
    /\ pc' = [pc EXCEPT ![t] = "idle"]
    /\ op' = [op EXCEPT ![t] = "none"]
    /\ inst' = [inst EXCEPT ![t] = "A"]
    /\ limit' = [limit EXCEPT ![t] = None]
    /\ items' = [items EXCEPT ![t] = <<>>]
    /\ pool' = [pool EXCEPT ![t] = 0]
    /\ pending' = [pending EXCEPT ![t] = <<>>]
    /\ row' = [row EXCEPT ![t] = None]
    /\ conn' = [conn EXCEPT ![t] = "none"]
    /\ result' = [result EXCEPT ![t] = NoResult]
    /\ UNCHANGED <<store, pools, _pool, closed>>

\* The script is run again: a new process, with a new PostgreSQLSession,
\* on the database the earlier runs left.
MainStart ==
    /\ main = "exited"
    /\ main' = "_ensure_schema"
    /\ pools' = [i \in Instances |-> <<>>]
    /\ _pool' = [i \in Instances |-> 0]
    /\ closed' = [i \in Instances |-> FALSE]
    /\ UNCHANGED <<store, pc, op, inst, limit, items, pool, pending, row, result, conn>>

\* main, run any number of times, one await after the other.
NextMain ==
    \/ MainStart
    \/ \E t \in {1} :
        \/ MainEnsureSchema(t)
        \/ Connected(t)
        \/ ExecuteDDL(t)
        \/ ConnClosed(t)
        \/ MainClearSession(t)
        \/ MainRun(t)
        \/ MainClose(t)
        \/ PoolCreated(t)
        \/ GetItemsFetch(t)
        \/ AddItemsInsert(t)
        \/ AddItemsCommit(t)
        \/ ClearSessionExecute(t)
        \/ ClosePoolClosed(t)
        \/ MainReturn(t)

SpecMain == InitMain /\ [][NextMain]_vars

\* main against a store that may fail asyncpg.connect and the DDL.
NextBoot ==
    \/ NextMain
    \/ \E t \in {1} :
        \/ ConnectFails(t)
        \/ DDLFails(t)
        \/ Unwind(t)

SpecBoot == InitMain /\ [][NextBoot]_vars

\* The host awaits each call before it makes the next: one task.
NextSeq ==
    \E t \in {1} :
        \/ \E i \in Instances, lim \in Limits : GetItemsCall(t, i, lim)
        \/ \E i \in Instances, its \in Batches : AddItemsCall(t, i, its)
        \/ \E i \in Instances : PopItemCall(t, i)
        \/ \E i \in Instances : ClearSessionCall(t, i)
        \/ \E i \in Instances : CloseCall(t, i)
        \/ Proceed(t)

SpecSeq == Init /\ [][NextSeq]_vars

\* Two tasks run the methods of one PostgreSQLSession concurrently: either
\* may take its next step.
Next ==
    \E t \in {1, 2} :
        \/ \E lim \in {None, <<1>>} : GetItemsCall(t, "A", lim)
        \/ \E its \in TurnBatches : AddItemsCall(t, "A", its)
        \/ PopItemCall(t, "A")
        \/ ClearSessionCall(t, "A")
        \/ CloseCall(t, "A")
        \/ Proceed(t)

Spec == Init /\ [][Next]_vars

\* Two tasks run the four log operations of two sessions concurrently.
NextIso ==
    \E t \in {1, 2} :
        \/ \E i \in Instances, lim \in {None, <<1>>} : GetItemsCall(t, i, lim)
        \/ \E i \in Instances, its \in TurnBatches : AddItemsCall(t, i, its)
        \/ \E i \in Instances : PopItemCall(t, i)
        \/ \E i \in Instances : ClearSessionCall(t, i)
        \/ PoolCreated(t)
        \/ GetItemsFetch(t)
        \/ AddItemsInsert(t)
        \/ AddItemsCommit(t)
        \/ PopItemSelect(t)
        \/ PopItemDelete(t)
        \/ ClearSessionExecute(t)
        \/ Return(t)

SpecIso == Init /\ [][NextIso]_vars

\* The tasks call add_items and close on one PostgreSQLSession concurrently:
\* the instance's pool goes through every state it has.
NextLife ==
    \E t \in Tasks :
        \/ \E its \in {Turns(0), Turns(1)} : AddItemsCall(t, "A", its)
        \/ CloseCall(t, "A")
        \/ PoolCreated(t)
        \/ AddItemsInsert(t)
        \/ AddItemsCommit(t)
        \/ ClosePoolClosed(t)
        \/ Return(t)

SpecLife == Init /\ [][NextLife]_vars

\* A session that holds M turns, stored by an earlier process, and a new
\* PostgreSQLSession for it on which every task calls pop_item once,
\* concurrently, and nothing else runs.
InitPop ==
    /\ \E M \in 1..NTasks - 1 :
        /\ table = {[session_id |-> "A", idx |-> k, payload |-> json_dumps(Turns(M)[k])]
                        : k \in 1..M}
        /\ idx_seq = M
    /\ pools = [i \in Instances |-> <<>>]
    /\ _pool = [i \in Instances |-> 0]
    /\ closed = [i \in Instances |-> FALSE]
    /\ pc = [t \in Tasks |-> "idle"]
    /\ op = [t \in Tasks |-> "none"]
    /\ inst = [t \in Tasks |-> "A"]
    /\ limit = [t \in Tasks |-> None]
    /\ items = [t \in Tasks |-> <<>>]
    /\ pool = [t \in Tasks |-> 0]
    /\ pending = [t \in Tasks |-> <<>>]
    /\ row = [t \in Tasks |-> None]
    /\ result = [t \in Tasks |-> NoResult]
    /\ schema = Relations
    /\ conn = [t \in Tasks |-> "none"]
    /\ main = "none"

NextPop ==
    \E t \in Tasks :
        \/ PopItemCall(t, "A")
        \/ PoolCreated(t)
        \/ PopItemSelect(t)
        \/ PopItemDelete(t)

\* Two tasks run the methods of one PostgreSQLSession concurrently against
\* a store that may fail the creation of a pool and any statement.
NextFail ==
    \E t \in {1, 2} :
        \/ GetItemsCall(t, "A", None)
        \/ \E its \in TurnBatches : AddItemsCall(t, "A", its)
        \/ PopItemCall(t, "A")
        \/ ClearSessionCall(t, "A")
        \/ CloseCall(t, "A")
        \/ Proceed(t)
        \/ CreatePoolFails(t)
        \/ StatementFails(t)
        \/ Unwind(t)

SpecFail == Init /\ [][NextFail]_vars

\* Every task calls add_items once on one PostgreSQLSession, concurrently,
\* with a batch of its own choice, and nothing else runs.
NextAdd ==
    \E t \in Tasks :
        \/ \E its \in Batches : AddItemsCall(t, "A", its)
        \/ PoolCreated(t)
        \/ AddItemsInsert(t)
        \/ AddItemsCommit(t)

SpecAdd == Init /\ [][NextAdd]_vars

SpecPop == InitPop /\ [][NextPop]_vars

\* \* ----------------------------------------------------------------- claims

\* Task t's call ends in this step, from the await named.
Finishes(t, at) == pc[t] = at /\ pc'[t] = "done"

\* C1: every add_items call that completes, made while nothing else runs,
\* returns normally and extends what get_items(None) returns by exactly its
\* items, in the order given; so after any sequence of add_items calls on
\* a fresh session get_items(None) returns all inserted payloads in
\* insertion order.
C1_AddItemsAppends ==
    [][\A t \in Tasks :
        Finishes(t, "executemany") =>
            LET sid == session_id(inst[t])
            IN  /\ result'[t] = Returned(None)
                /\ AllItems(table', sid) = AllItems(table, sid) \o items[t]
                /\ Len(items[t]) > 0
      ]_vars

\* Two add_items calls have stored three turns, the second call two of them.
C1_Witness ==
    /\ pc[1] = "done" /\ op[1] = "add_items" /\ inst[1] = "A"
    /\ Len(items[1]) = 2 /\ items[1][1] # items[1][2]
    /\ Len(AllItems(table, "A")) = 3
    /\ SubSeq(AllItems(table, "A"), 2, 3) = items[1]

\* C2: with nothing else running, a pop_item on a session without rows
\* returns None and leaves the table as it was; on a session with rows it
\* returns the last element of what get_items(None) returned before,
\* deletes exactly one row, and get_items(None) then returns the earlier
\* sequence without its last element.
C2_PopItemIsLifo ==
    [][\A t \in Tasks :
        Finishes(t, "delete") =>
            LET sid == session_id(inst[t])
                before == AllItems(table, sid)
                after == AllItems(table', sid)
            IN  IF before = <<>>
                THEN result'[t] = Returned(None) /\ table' = table
                ELSE /\ result'[t] = Returned(<<before[Len(before)]>>)
                     /\ table' \subseteq table
                     /\ Cardinality(table \ table') = 1
                     /\ after = SubSeq(before, 1, Len(before) - 1)
      ]_vars

\* A pop_item has returned the newest of three turns; the two older ones,
\* which differ from each other, are left.
C2_Witness ==
    /\ pc[1] = "done" /\ op[1] = "pop_item" /\ inst[1] = "A"
    /\ result[1].status = "returned" /\ result[1].value # None
    /\ idx_seq = 3
    /\ Len(AllItems(table, "A")) = 2
    /\ AllItems(table, "A")[1] # AllItems(table, "A")[2]

\* C8: with nothing else running, a clear_session whose statement runs
\* returns normally and leaves get_items(None) of its session empty,
\* whatever the session held; run on a session without rows (as a second
\* clear_session in a row is) it leaves the table exactly as it was; and a
\* clear_session called while the instance's pool is open does not raise.
C8_ClearSessionEmptiesAndIsIdempotent ==
    [][\A t \in Tasks :
        /\ Finishes(t, "execute") =>
            LET sid == session_id(inst[t])
            IN  /\ result'[t] = Returned(None)
                /\ AllItems(table', sid) = <<>>
                /\ {r \in table' : r.session_id = sid} = {}
                /\ AllItems(table, sid) = <<>> => table' = table
                /\ idx_seq' = idx_seq
        /\ (/\ pc[t] = "idle" /\ op'[t] = "clear_session"
            /\ _pool[inst'[t]] # 0
            /\ pools[inst'[t]][_pool[inst'[t]]] = "open") => pc'[t] = "execute"
      ]_vars

\* A clear_session has emptied session A, which had been given rows, while
\* rows of the other session are still stored.
C8_Witness ==
    /\ pc[1] = "done" /\ op[1] = "clear_session" /\ inst[1] = "A"
    /\ result[1] = Returned(None)
    /\ AllItems(table, "A") = <<>>
    /\ idx_seq = 3
    /\ Cardinality(table) = 1

\* C9: get_items(k) with k > 0 returns the first min(k, n) elements of what
\* get_items(None) returns on the same store, the oldest turns in ascending
\* order; and get_items with no limit or a positive one on a session
\* without rows returns the empty list and does not raise.
C9_LimitKeepsOldest ==
    [][\A t \in Tasks :
        (Finishes(t, "fetch") /\ (limit[t] = None \/ limit[t][1] > 0)) =>
            LET all == AllItems(table, session_id(inst[t]))
                n == Len(all)
            IN  /\ limit[t] # None =>
                    result'[t] = Returned(
                        [j \in 1..(IF limit[t][1] < n THEN limit[t][1] ELSE n) |-> all[j]])
                /\ n = 0 => result'[t] = Returned(<<>>)
      ]_vars

\* get_items(1) on a session of two different turns has returned the older.
C9_Witness ==
    /\ pc[1] = "done" /\ op[1] = "get_items" /\ inst[1] = "A"
    /\ limit[1] = <<1>>
    /\ Len(AllItems(table, "A")) = 2
    /\ AllItems(table, "A")[1] # AllItems(table, "A")[2]
    /\ result[1] = Returned(<<AllItems(table, "A")[1]>>)

\* C3: whatever the interleaving of pop_item with pop_item, add_items,
\* clear_session, get_items and close on a session, a pop_item that returns
\* a payload returns that of a row that was in the table when its DELETE
\* took effect and deletes exactly that row; a row a pop_item returned is
\* no longer stored, and no two pop_item calls hold the same returned row.
C3_RowsReturned ==
    \A t \in Tasks :
        (pc[t] = "done" /\ op[t] = "pop_item" /\ row[t] # None) =>
            /\ row[t][1] \notin table
            /\ result[t] = Returned(<<json_loads(row[t][1].payload)>>)
            /\ \A u \in Tasks \ {t} :
                (pc[u] = "done" /\ op[u] = "pop_item") => row[u] # row[t]

C3_RowsDeleted ==
    \A t \in Tasks :
        Finishes(t, "delete") =>
            IF result'[t].value # None
            THEN /\ row'[t] # None
                 /\ row'[t][1] \in table
                 /\ table' = table \ {row'[t][1]}
                 /\ row'[t][1].session_id = session_id(inst[t])
            ELSE row'[t] = None /\ table' = table

\* C3, both parts: the rows pop_item calls hold, and the step that returns one.
C3_PopsReturnDistinctRows == []C3_RowsReturned /\ [][C3_RowsDeleted]_vars

\* Two concurrent pop_item calls aimed at the same row: one has returned it,
\* the other has returned None, and an older row of the session is left.
C3_Witness ==
    /\ pc[1] = "done" /\ op[1] = "pop_item" /\ row[1] # None
    /\ pc[2] = "done" /\ op[2] = "pop_item" /\ row[2] = None
    /\ result[2] = Returned(None)
    /\ \E r \in table : r.session_id = "A" /\ r.idx < row[1][1].idx

\* C10: add_items([]) returns None at once in every state of the instance's
\* pool (none, being created, open, closing, closed): it leaves the table,
\* the sequence and the uncommitted rows as they were, creates no pool, uses
\* none and reaches no statement.
C10_EmptyBatchDoesNothing ==
    [][\A t \in Tasks :
        (pc[t] = "idle" /\ op'[t] = "add_items" /\ items'[t] = <<>>) =>
            /\ pc'[t] = "done"
            /\ result'[t] = Returned(None)
            /\ UNCHANGED <<table, idx_seq, pools, _pool, pending>>
            /\ pool'[t] = 0
      ]_vars

\* add_items([]) has returned None on an instance whose pool is closing:
\* a close() waits for the connection another add_items holds.
C10_Witness ==
    \E t, u, w \in Tasks :
        /\ pc[t] = "done" /\ op[t] = "add_items" /\ items[t] = <<>>
        /\ result[t] = Returned(None) /\ pool[t] = 0
        /\ pc[u] = "pool_close"
        /\ pc[w] = "executemany"
        /\ pools["A"][_pool["A"]] = "closing"

\* C4: when every one of N tasks has finished its one pop_item on a session
\* that held M < N turns, with nothing else running, exactly M of the calls
\* have returned a payload, the others None, no row is left, and the
\* payloads returned are the M stored turns, each once.
C4_AsManyPopsAsItems ==
    (\A t \in Tasks : pc[t] = "done") =>
        LET got == {t \in Tasks : result[t].value # None}
        IN  /\ Cardinality(got) = idx_seq
            /\ \A t \in Tasks \ got : result[t] = Returned(None)
            /\ table = {}
            /\ {row[t][1].idx : t \in got} = 1..idx_seq

\* C5: an instance's create_pool is called at most once over its life, and
\* all tasks that hold a pool of the instance hold the same one.
C5_OnePoolPerInstance ==
    \A i \in Instances :
        /\ Len(pools[i]) <= 1
        /\ \A t, u \in Tasks :
            (inst[t] = i /\ inst[u] = i /\ pool[t] # 0 /\ pool[u] # 0) => pool[t] = pool[u]

\* The step in which task t calls one of the four log operations on i.
Calls(t, i) ==
    /\ pc[t] = "idle"
    /\ pc'[t] # "idle"
    /\ inst'[t] = i
    /\ op'[t] \in {"get_items", "add_items", "pop_item", "clear_session"}

\* C7: once close() has returned on an instance, every get_items,
\* add_items, pop_item or clear_session called on it raises, without
\* suspending, and no pool is created for the instance any more, whether or
\* not a pool existed when close() was called.
C7_NothingSucceedsAfterClose ==
    [][\A i \in Instances :
        closed[i] =>
            /\ pools'[i] = pools[i]
            /\ \A t \in Tasks :
                Calls(t, i) => pc'[t] = "done" /\ result'[t] = Raised
      ]_vars

\* The rows of table t stored under session sid.
StoredUnder(t, sid) == {r \in t : r.session_id = sid}

\* The session of the task that takes the step (a call names it in inst').
Moves(t) == pc'[t] # pc[t] \/ pending'[t] # pending[t]
SessionOf(t) == session_id(IF pc[t] = "idle" THEN inst'[t] ELSE inst[t])

\* C6: in any interleaving of get_items, add_items, pop_item and
\* clear_session on two sessions, a step of an operation on one session
\* leaves the rows stored under the other exactly as they were; what a
\* get_items returns is what it would return were the other session's rows
\* not in the table; and the row a pop_item targets, the row it deletes and
\* the rows an add_items inserts are rows of its own session.
C6_SessionsAreIsolated ==
    [][\A t \in Tasks :
        Moves(t) =>
            LET sid == SessionOf(t)
            IN  /\ \A other \in {session_id(i) : i \in Instances} \ {sid} :
                    StoredUnder(table', other) = StoredUnder(table, other)
                /\ Finishes(t, "fetch") =>
                    result'[t] = SelectPayloads(StoredUnder(table, sid), sid, limit[t])
                /\ row'[t] # None => row'[t][1].session_id = sid
                /\ \A k \in 1..Len(pending'[t]) : pending'[t][k].session_id = sid
                /\ table' \ table \subseteq StoredUnder(table', sid)
      ]_vars

\* A pop_item on A has returned A's newest row while B holds rows, and a
\* get_items on B has returned B's turns.
C6_Witness ==
    /\ pc[1] = "done" /\ op[1] = "pop_item" /\ inst[1] = "A" /\ row[1] # None
    /\ pc[2] = "done" /\ op[2] = "get_items" /\ inst[2] = "B"
    /\ result[2].status = "returned" /\ Len(result[2].value) = 2
    /\ \E r \in table : r.session_id = "B" /\ r.idx > row[1][1].idx
    /\ \E r \in table : r.session_id = "B" /\ r.idx < row[1][1].idx

\* C11: close() never raises and never changes the stored rows: called
\* while no pool was created, or on a pool already closed (as every close()
\* after the first is), it returns None at once and leaves the pools as
\* they are; otherwise it returns None once the pool is closed.
C11_CloseIsIdempotent ==
    [][\A t \in Tasks :
        /\ (pc[t] = "idle" /\ op'[t] = "close") =>
            LET i == inst'[t]
            IN  /\ table' = table /\ idx_seq' = idx_seq
                /\ (_pool[i] = 0 \/ pools[i][_pool[i]] = "closed") =>
                        /\ pc'[t] = "done"
                        /\ result'[t] = Returned(None)
                        /\ pools' = pools /\ _pool' = _pool
                /\ pc'[t] \in {"done", "pool_close"}
                /\ pc'[t] = "done" => result'[t] = Returned(None)
        /\ Finishes(t, "pool_close") =>
            /\ result'[t] = Returned(None)
            /\ table' = table /\ idx_seq' = idx_seq
      ]_vars

\* Two close() calls have returned None, one after closing the pool and one
\* at once, on an instance whose pool is closed and whose rows are stored.
C11_Witness ==
    \E t, u \in Tasks :
        /\ pc[t] = "done" /\ op[t] = "close" /\ pool[t] # 0
        /\ pc[u] = "done" /\ op[u] = "close" /\ pool[u] = 0
        /\ result[t] = Returned(None) /\ result[u] = Returned(None)
        /\ pools["A"] = <<"closed">>
        /\ table # {}

\* C12: once close() has returned on an instance and no task is inside a
\* call, every pool the instance created is closed.
C12_NoPoolLeftOpen ==
    \A i \in Instances :
        (closed[i] /\ \A t \in Tasks : pc[t] \in {"idle", "done"}) =>
            \A p \in 1..Len(pools[i]) : pools[i][p] = "closed"

\* C13: a pop_item returns None only if its session holds no row when its
\* DELETE takes effect.
C13_NoneOnlyWhenEmpty ==
    [][\A t \in Tasks :
        (Finishes(t, "delete") /\ result'[t] = Returned(None)) =>
            {r \in table : r.session_id = session_id(inst[t])} = {}
      ]_vars

\* C17: whenever get_items is called with an int limit, 0 included, the
\* statement it builds has as many placeholders as args are bound, and it
\* has the LIMIT clause exactly when the limit is passed.
C17_PlaceholdersMatchArgs ==
    \A t \in Tasks :
        (op[t] = "get_items" /\ limit[t] # None) =>
            /\ NPlaceholders(limit[t]) = NArgs(limit[t])
            /\ HasLimitClause(limit[t]) <=> NArgs(limit[t]) = 2

\* The number of items in the batches of the tasks 1..n.
RECURSIVE NItems(_)
NItems(n) == IF n = 0 THEN 0 ELSE Len(items[n]) + NItems(n - 1)

\* C14: in every interleaving of concurrent add_items calls on one session,
\* no stored row is lost, the rows a call commits are its batch, each item
\* once, and get_items(None) lists them in the order of the batch; once
\* every call has returned the session holds as many rows as items were
\* added.
C14_ConcurrentBatchesAreStoredInOrder ==
    /\ []((\A t \in Tasks : pc[t] \in {"idle", "done"}) =>
            Len(AllItems(table, session_id("A"))) = NItems(NTasks))
    /\ [][/\ table \subseteq table'
          /\ \A t \in Tasks :
                Finishes(t, "executemany") =>
                    /\ Cardinality(table' \ table) = Len(items[t])
                    /\ AllItems(table' \ table, session_id(inst[t])) = items[t]
                    /\ result'[t] = Returned(None)
         ]_vars

\* A batch of two items was stored as the rows idx 1 and 3 while another
\* call, which took idx 2 in between, has not committed yet.
C14_Witness ==
    \E t, u \in Tasks :
        /\ pc[t] = "done" /\ op[t] = "add_items" /\ Len(items[t]) = 2
        /\ items[t][1] # items[t][2]
        /\ {r.idx : r \in table} = {1, 3}
        /\ AllItems(table, session_id("A")) = items[t]
        /\ pc[u] = "executemany" /\ Len(pending[u]) = 1 /\ pending[u][1].idx = 2

\* The rows inserted and not yet committed.
Uncommitted == UNION {{pending[t][k] : k \in 1..Len(pending[t])} : t \in Tasks}

\* The k-th row of S in the order the rows were inserted: the row that has
\* k rows of S inserted no later than itself.
KthInserted(S, k) == CHOOSE r \in S : Cardinality({q \in S : q.idx <= r.idx}) = k

\* C15: (session_id, idx) identifies a row; the idx values handed out never
\* exceed the sequence's last value, which never decreases, and every newly
\* inserted row gets an idx above it, hence above every idx its session was
\* ever given, deleted rows included; get_items(None) returns the payloads
\* of the session's rows in the order of insertion.
C15_IdxIsUniqueAndIncreasing ==
    /\ [](\A r, q \in table \cup Uncommitted :
            /\ r.idx \in 1..idx_seq
            /\ (r.session_id = q.session_id /\ r.idx = q.idx) => r = q)
    /\ [][/\ idx_seq' >= idx_seq
          /\ \A r \in (table' \cup Uncommitted') \ (table \cup Uncommitted) :
                r.idx > idx_seq
          /\ \A t \in Tasks :
                (Finishes(t, "fetch") /\ limit[t] = None) =>
                    LET S == {r \in table : r.session_id = session_id(inst[t])}
                    IN  result'[t] = Returned(
                            [k \in 1..Cardinality(S) |-> json_loads(KthInserted(S, k).payload)])
         ]_vars

\* After the row idx 2 was deleted the next row was stored with idx 3, and
\* get_items(None) has returned the two surviving payloads.
C15_Witness ==
    \E t \in Tasks :
        /\ pc[t] = "done" /\ op[t] = "get_items" /\ limit[t] = None
        /\ Uncommitted = {}
        /\ {r.idx : r \in table} = {1, 3}
        /\ \A r \in table : r.session_id = session_id(inst[t])
        /\ result[t] = Returned(AllItems(table, session_id(inst[t])))
        /\ Len(result[t].value) = 2

\* C16: a failure of create_pool or of a statement changes no stored row,
\* and the call it happens in ends by raising to its caller, never with a
\* result, without changing a stored row on the way; this holds for the
\* DELETE of pop_item in particular.
C16_FailuresReachTheCaller ==
    [][\A t \in Tasks :
        /\ (pc[t] # "raising" /\ pc'[t] = "raising") =>
                /\ pc[t] \in {"create_pool", "fetch", "executemany", "fetchrow", "delete", "execute"}
                /\ table' = table
                /\ pending'[t] = <<>>
        /\ (pc[t] = "raising" /\ pc'[t] # "raising") =>
                /\ pc'[t] = "done"
                /\ result'[t] = Raised
                /\ table' = table
      ]_vars

\* A pop_item whose DELETE failed after its subquery had found a row has
\* raised to its caller, and the row is still stored.
C16_Witness ==
    \E t \in Tasks :
        /\ pc[t] = "done" /\ op[t] = "pop_item" /\ result[t] = Raised
        /\ row[t] # None
        /\ pools[inst[t]][pool[t]] = "open"
        /\ row[t][1] \in table

\* C18: every run of _ensure_schema, the first and the later ones that find
\* the relations and stored rows, returns None with the table and the index
\* present and without touching a row; no relation ever goes away; and main
\* calls no session operation before both exist.
C18_EnsureSchemaIsIdempotent ==
    /\ [](\A t \in Tasks :
            (pc[t] = "done" /\ op[t] = "_ensure_schema") =>
                result[t] = Returned(None) /\ schema = Relations)
    /\ [][/\ schema \subseteq schema'
          /\ \A t \in Tasks :
                /\ (op[t] = "_ensure_schema" /\ pc'[t] # pc[t]) =>
                        table' = table /\ idx_seq' = idx_seq
                /\ (pc[t] = "ddl" /\ pc'[t] # "ddl") =>
                        pc'[t] = "conn_close" /\ schema' = Relations
                /\ (pc[t] = "idle" /\ op'[t] \in {"get_items", "add_items", "pop_item",
                                                  "clear_session", "close"}) =>
                        schema = Relations
         ]_vars

\* _ensure_schema has returned from a run that found the relations and two
\* stored rows in place.
C18_Witness ==
    \E t \in Tasks :
        /\ pc[t] = "done" /\ op[t] = "_ensure_schema" /\ result[t] = Returned(None)
        /\ schema = Relations
        /\ Cardinality(table) = 2

\* C19: whenever _ensure_schema has returned or raised, the connection it
\* opened is closed, and it has made or used no pool of a session log.
C19_ConnectionIsShortLived ==
    \A t \in Tasks :
        (pc[t] = "done" /\ op[t] = "_ensure_schema") =>
            /\ conn[t] # "open"
            /\ pool[t] = 0

====
